---------------------------- MODULE Spec2Model ----------------------------
(***************************************************************************)
(* Model of the quiz engine of flashcard_japan (class Quiz, src/src/quiz.ts)*)
(* and of the card viewer around it (class FlashcardApp, src/src/main.ts)  *)
(* as a state machine.  The variables are the private fields of Quiz, the  *)
(* fields of FlashcardApp the viewer works on, the last call made and the  *)
(* value that call returned.                                               *)
(***************************************************************************)
EXTENDS Integers, Sequences, FiniteSets, TLC

VARIABLES
    flashcards,            \* Quiz.flashcards: the catalog given to the constructor
    filteredFlashcards,    \* Quiz.filteredFlashcards: the tier-filtered pool
    questions,             \* Quiz.questions: the question sequence
    currentQuestionIndex,  \* Quiz.currentQuestionIndex: the cursor (0-based)
    score,                 \* Quiz.score
    answers,               \* Quiz.answers: the history
    isActive,              \* Quiz.isActive
    currentMode,           \* Quiz.currentMode
    call,                  \* the last method called, with its arguments
    ret,                   \* what that call returned
    appFlashcards,         \* FlashcardApp.flashcards: the displayed card list
    originalOrder,         \* FlashcardApp.originalOrder
    currentIndex,          \* FlashcardApp.currentIndex
    isShuffled,            \* FlashcardApp.isShuffled
    flashcardsJson         \* the cards of public/flashcards.json on the server

\* FlashcardApp.allFlashcards is the array the Quiz was constructed on
\* (main.ts:398, quiz.ts:41): the variable flashcards stands for both.
viewer == << appFlashcards, originalOrder, currentIndex, isShuffled,
             flashcardsJson >>

vars == << flashcards, filteredFlashcards, questions, currentQuestionIndex,
           score, answers, isActive, currentMode, call, ret, appFlashcards,
           originalOrder, currentIndex, isShuffled, flashcardsJson >>

session == << flashcards, filteredFlashcards, questions, currentQuestionIndex,
              score, answers, isActive, currentMode >>

-----------------------------------------------------------------------------
(* Bounds of the model *)

\* Math.random() is drawn from a periodic tape of TapeLen draws.
TapeLen == 2
\* Requested question counts range over 0..MaxCount.
MaxCount == 6
\* checkAnswer is explored while the history holds fewer than MaxAnswers entries.
MaxAnswers == 2
\* nextQuestion is explored while the cursor is below MaxCursor.
MaxCursor == 3

(* Program constants *)

\* startQuiz refuses a pool of fewer than MinPool cards.
MinPool == 4
\* generateQuestion stops after MaxDistractors distractors.
MaxDistractors == 3

-----------------------------------------------------------------------------
(* Cards and catalogs *)

\* A Flashcard (kanji is only displayed and logged, never decided on).
\* An absent meaning_id and an absent level are the empty string (both falsy
\* in the source's tests).
Card(id, level, meaning, meaning_id, furigana, romaji) ==
    [ id |-> id, level |-> level, meaning |-> meaning, meaning_id |-> meaning_id,
      furigana |-> furigana, romaji |-> romaji ]

\* Five cards of one tier with pairwise distinct translations.
CatFive ==
    << Card(1, "N5", "a", "A", "ka", "ka"),
       Card(2, "N5", "b", "B", "ki", "ki"),
       Card(3, "N5", "c", "C", "ku", "ku"),
       Card(4, "N5", "d", "D", "ke", "ke"),
       Card(5, "N5", "e", "E", "ko", "ko") >>

\* Eight cards of one tier, pairwise distinct.
CatEight ==
    << Card(1, "N5", "a", "A", "ma", "ma"),
       Card(2, "N5", "b", "B", "mi", "mi"),
       Card(3, "N5", "c", "C", "mu", "mu"),
       Card(4, "N5", "d", "D", "me", "me"),
       Card(5, "N5", "e", "E", "mo", "mo"),
       Card(6, "N5", "f", "F", "ya", "ya"),
       Card(7, "N5", "g", "G", "yu", "yu"),
       Card(8, "N5", "h", "H", "yo", "yo") >>

\* Four cards, two of which share the translation X; three share a reading.
CatShared ==
    << Card(1, "N5", "x", "X", "sa", "sa"),
       Card(2, "N5", "x2", "X", "shi", "shi"),
       Card(3, "N5", "y", "Y", "shi", "si"),
       Card(4, "N4", "z", "Z", "shi", "shi") >>

\* Five cards, two of which carry the same id; some have no meaning_id.
CatDupId ==
    << Card(1, "N4", "a", "A", "ta", "ta"),
       Card(2, "N4", "b", "", "chi", "chi"),
       Card(2, "N4", "c", "C", "tsu", "tsu"),
       Card(3, "N4", "d", "", "te", "te"),
       Card(4, "N4", "A", "", "to", "to") >>

\* Four N5 cards and one card without a level; two cards share a reading.
CatMixed ==
    << Card(1, "N5", "a", "A", "na", "na"),
       Card(2, "N5", "b", "", "ni", "ni"),
       Card(3, "", "c", "C", "nu", "nu"),
       Card(4, "N5", "d", "D", "ne", "ne"),
       Card(5, "N5", "e", "E", "na", "na2") >>

\* A catalog too small for any quiz.
CatSmall ==
    << Card(1, "N5", "a", "A", "ha", "ha"),
       Card(2, "N5", "b", "B", "hi", "hi"),
       Card(3, "N4", "c", "C", "fu", "fu") >>

Catalogs == { CatFive, CatShared, CatDupId, CatMixed, CatSmall }

Levels == { "ALL", "N5", "N4" }
Modes == { "meaning", "reading" }
Counts == 0..MaxCount

-----------------------------------------------------------------------------
(* The random source *)

\* Math.random() returns r / RandDen for a draw r of RandDraws; the six draws
\* reach every index of an array of up to six elements.
RandDraws == { 0, 1, 2, 3, 4, 5 }
RandDen == Cardinality(RandDraws)
Tapes == [ 1..TapeLen -> RandDraws ]

\* The draw made at position pos of the tape.
Draw(tape, pos) == tape[(pos % Len(tape)) + 1]

\* Math.floor(Math.random() * (i + 1))
RandomIndex(tape, pos, i) == (Draw(tape, pos) * (i + 1)) \div RandDen

\* [shuffled[i], shuffled[j]] = [shuffled[j], shuffled[i]]  (0-based i, j)
Swap(array, i, j) ==
    [ k \in 1..Len(array) |->
        IF k = i + 1 THEN array[j + 1]
        ELSE IF k = j + 1 THEN array[i + 1]
        ELSE array[k] ]

\* The loop of shuffleArray from index i down to 1.
RECURSIVE ShuffleFrom(_, _, _, _)
ShuffleFrom(array, i, tape, pos) ==
    IF i <= 0 THEN array
    ELSE ShuffleFrom(Swap(array, i, RandomIndex(tape, pos, i)), i - 1, tape, pos + 1)

\* Quiz.shuffleArray: Fisher-Yates on a copy.
shuffleArray(array, tape, pos) == ShuffleFrom(array, Len(array) - 1, tape, pos)

\* The number of Math.random() calls shuffleArray makes on n elements.
ShuffleDraws(n) == IF n > 1 THEN n - 1 ELSE 0

-----------------------------------------------------------------------------
(* generateQuestion *)

Null == [ kind |-> "null" ]
Some(kind, value) == [ kind |-> kind, value |-> value ]

\* AnswerOf preferring meaning to meaning_id.
AnswerOfPrimary(card, mode) ==
    IF mode = "meaning"
    THEN (IF card.meaning # "" THEN card.meaning ELSE card.meaning_id)
    ELSE card.furigana

\* meaning mode: meaning_id || meaning; reading mode: furigana.
AnswerOf(card, mode) ==
    IF mode = "meaning"
    THEN (IF card.meaning_id # "" THEN card.meaning_id ELSE card.meaning)
    ELSE card.furigana

\* PickDistractors without the seenAnswers test.
RECURSIVE PickDistractorsUnchecked(_, _, _, _, _)
PickDistractorsUnchecked(cards, k, mode, seenAnswers, uniqueDistractors) ==
    IF k > Len(cards) THEN uniqueDistractors
    ELSE LET picked == Append(uniqueDistractors, cards[k])
         IN  IF Len(picked) >= MaxDistractors THEN picked
             ELSE PickDistractorsUnchecked(cards, k + 1, mode, seenAnswers, picked)

\* PickDistractors breaking one distractor too early.
RECURSIVE PickDistractorsShort(_, _, _, _, _)
PickDistractorsShort(cards, k, mode, seenAnswers, uniqueDistractors) ==
    IF k > Len(cards) THEN uniqueDistractors
    ELSE LET answer == IF mode = "meaning"
                       THEN (IF cards[k].meaning_id # "" THEN cards[k].meaning_id
                             ELSE cards[k].meaning)
                       ELSE cards[k].furigana
             fresh == answer \notin seenAnswers
             picked == IF fresh THEN Append(uniqueDistractors, cards[k])
                       ELSE uniqueDistractors
         IN  IF Len(picked) >= MaxDistractors - 1 THEN picked
             ELSE PickDistractorsShort(cards, k + 1, mode,
                                       seenAnswers \cup {answer}, picked)

\* The for loop over shuffledPotentials: a card is accepted when its answer
\* was not seen; the loop breaks once MaxDistractors cards are accepted.
RECURSIVE PickDistractors(_, _, _, _, _)
PickDistractors(cards, k, mode, seenAnswers, uniqueDistractors) ==
    IF k > Len(cards) THEN uniqueDistractors
    ELSE LET answer == AnswerOf(cards[k], mode)
             fresh == answer \notin seenAnswers
             picked == IF fresh THEN Append(uniqueDistractors, cards[k])
                       ELSE uniqueDistractors
         IN  IF Len(picked) >= MaxDistractors THEN picked
             ELSE PickDistractors(cards, k + 1, mode,
                                  seenAnswers \cup {answer}, picked)

\* Array.prototype.indexOf: the first 0-based index of x, or -1.
IndexOf(array, x) ==
    IF \E k \in 1..Len(array) : array[k] = x
    THEN (CHOOSE k \in 1..Len(array) :
              array[k] = x /\ \A m \in 1..(k - 1) : array[m] # x) - 1
    ELSE -1

\* generateQuestion shuffling the options without their romaji.
generateQuestionUnpaired(flashcard, pool, mode, tape, pos) ==
    LET currentAnswer == AnswerOf(flashcard, mode)
        potentialDistractors == SelectSeq(pool, LAMBDA f : f.id # flashcard.id)
        shuffledPotentials == shuffleArray(potentialDistractors, tape, pos)
        pos2 == pos + ShuffleDraws(Len(potentialDistractors))
        finalDistractors ==
            PickDistractors(shuffledPotentials, 1, mode, {currentAnswer}, << >>)
        wrongOptions ==
            [ k \in 1..Len(finalDistractors) |-> AnswerOf(finalDistractors[k], mode) ]
        allOptions == Append(wrongOptions, currentAnswer)
        allRomaji ==
            Append([ k \in 1..Len(finalDistractors) |-> finalDistractors[k].romaji ],
                   flashcard.romaji)
        shuffledOptions == shuffleArray(allOptions, tape, pos2)
        pos3 == pos2 + ShuffleDraws(Len(allOptions))
    IN  [ q |-> [ flashcard |-> flashcard,
                  options |-> shuffledOptions,
                  optionsRomaji |-> IF mode = "reading" THEN << allRomaji >>
                                    ELSE << >>,
                  correctIndex |-> IndexOf(shuffledOptions, currentAnswer),
                  mode |-> mode ],
          pos |-> pos3 ]

\* Quiz.generateQuestion, reading the random tape from position pos.
\* Returns the question and the tape position after it.
generateQuestion(flashcard, pool, mode, tape, pos) ==
    LET currentAnswer == AnswerOf(flashcard, mode)
        potentialDistractors == SelectSeq(pool, LAMBDA f : f.id # flashcard.id)
        shuffledPotentials == shuffleArray(potentialDistractors, tape, pos)
        pos2 == pos + ShuffleDraws(Len(potentialDistractors))
        finalDistractors ==
            PickDistractors(shuffledPotentials, 1, mode, {currentAnswer}, << >>)
        wrongOptions ==
            [ k \in 1..Len(finalDistractors) |-> AnswerOf(finalDistractors[k], mode) ]
        allOptions == Append(wrongOptions, currentAnswer)
        allRomaji ==
            Append([ k \in 1..Len(finalDistractors) |-> finalDistractors[k].romaji ],
                   flashcard.romaji)
        paired == [ k \in 1..Len(allOptions) |->
                      [ option |-> allOptions[k], romaji |-> allRomaji[k] ] ]
        shuffledPaired == shuffleArray(paired, tape, pos2)
        pairedOptions == [ k \in 1..Len(shuffledPaired) |-> shuffledPaired[k].option ]
        pairedRomaji == [ k \in 1..Len(shuffledPaired) |-> shuffledPaired[k].romaji ]
        shuffledOptions == shuffleArray(allOptions, tape, pos2)
        pos3 == pos2 + ShuffleDraws(Len(allOptions))
    IN  IF mode = "reading"
        THEN [ q |-> [ flashcard |-> flashcard,
                       options |-> pairedOptions,
                       optionsRomaji |-> << pairedRomaji >>,
                       correctIndex |-> IndexOf(pairedOptions, currentAnswer),
                       mode |-> mode ],
               pos |-> pos3 ]
        ELSE [ q |-> [ flashcard |-> flashcard,
                       options |-> shuffledOptions,
                       optionsRomaji |-> << >>,
                       correctIndex |-> IndexOf(shuffledOptions, currentAnswer),
                       mode |-> mode ],
               pos |-> pos3 ]

-----------------------------------------------------------------------------
(* startQuiz *)

\* FilterByLevel returning the whole catalog for every level.
FilterIgnoringLevel(cards, level) == cards

\* this.flashcards.filter(f => f.level === level), or a copy for "ALL".
FilterByLevel(cards, level) ==
    IF level = "ALL" THEN cards
    ELSE SelectSeq(cards, LAMBDA f : f.level = level)

\* The seenIds loops: keep the first element of each id, in order.
RECURSIVE UniqueBy(_, _, _, _)
UniqueBy(items, k, seenIds, kept) ==
    IF k > Len(items) THEN kept
    ELSE IF items[k].id \in seenIds
         THEN UniqueBy(items, k + 1, seenIds, kept)
         ELSE UniqueBy(items, k + 1, seenIds \cup {items[k].id}, Append(kept, items[k]))

UniqueCards(cards) == UniqueBy(cards, 1, {}, << >>)

Min(a, b) == IF a < b THEN a ELSE b

\* ActualCount without the special case of a count of 0.
ActualCountNoZero(questionCount, n) == Min(questionCount, n)

\* questionCount === 0 ? uniqueCards.length : Math.min(questionCount, uniqueCards.length)
ActualCount(questionCount, n) ==
    IF questionCount = 0 THEN n ELSE Min(questionCount, n)

\* selectedCards.map(card => this.generateQuestion(card)), threading the tape.
RECURSIVE MapQuestions(_, _, _, _, _, _, _)
MapQuestions(selectedCards, k, pool, mode, tape, pos, built) ==
    IF k > Len(selectedCards) THEN built
    ELSE LET g == generateQuestion(selectedCards[k], pool, mode, tape, pos)
         IN  MapQuestions(selectedCards, k + 1, pool, mode, tape, g.pos,
                          Append(built, g.q))

\* The final de-duplication of the questions by flashcard id.
RECURSIVE FinalQuestions(_, _, _, _)
FinalQuestions(qs, k, finalSeenIds, kept) ==
    IF k > Len(qs) THEN kept
    ELSE IF qs[k].flashcard.id \in finalSeenIds
         THEN FinalQuestions(qs, k + 1, finalSeenIds, kept)
         ELSE FinalQuestions(qs, k + 1, finalSeenIds \cup {qs[k].flashcard.id},
                             Append(kept, qs[k]))

\* BuildQuestions without the two de-duplications by id.
BuildQuestionsNoDedup(pool, questionCount, mode, tape) ==
    LET shuffled == shuffleArray(pool, tape, 0)
        actualCount == ActualCount(questionCount, Len(shuffled))
        selectedCards == SubSeq(shuffled, 1, actualCount)
    IN  MapQuestions(selectedCards, 1, pool, mode, tape,
                     ShuffleDraws(Len(pool)), << >>)

\* The question sequence startQuiz builds from an accepted pool.
BuildQuestions(pool, questionCount, mode, tape) ==
    LET shuffled == shuffleArray(pool, tape, 0)
        uniqueCards == UniqueCards(shuffled)
        actualCount == ActualCount(questionCount, Len(uniqueCards))
        selectedCards == SubSeq(uniqueCards, 1, actualCount)
        built == MapQuestions(selectedCards, 1, pool, mode, tape,
                              ShuffleDraws(Len(pool)), << >>)
    IN  FinalQuestions(built, 1, {}, << >>)

\* getCurrentQuestion without the test of isActive.
CurrentQuestionIgnoringActive(active, qs, index) ==
    IF index >= Len(qs) THEN Null
    ELSE Some("question", qs[index + 1])

\* Quiz.getCurrentQuestion on given field values.
CurrentQuestionOf(active, qs, index) ==
    IF ~active \/ index >= Len(qs) THEN Null
    ELSE Some("question", qs[index + 1])

getCurrentQuestion == CurrentQuestionOf(isActive, questions, currentQuestionIndex)

\* NotEnoughCards refusing a pool of exactly MinPool cards too.
NotEnoughCardsOffByOne(pool) == Len(pool) <= MinPool

\* this.filteredFlashcards.length < 4
NotEnoughCards(pool) == Len(pool) < MinPool

\* startQuiz keeping the score and the history of the session it replaces.
StartQuizKeepingScore(level, questionCount, mode, tape) ==
    LET pool == FilterByLevel(flashcards, level)
    IN  /\ currentMode' = mode
        /\ filteredFlashcards' = pool
        /\ UNCHANGED viewer
        /\ call' = [ op |-> "startQuiz", level |-> level,
                     questionCount |-> questionCount, mode |-> mode ]
        /\ IF NotEnoughCards(pool)
           THEN /\ ret' = Null
                /\ UNCHANGED << flashcards, questions, currentQuestionIndex,
                                score, answers, isActive >>
           ELSE LET qs == BuildQuestions(pool, questionCount, mode, tape)
                IN  /\ questions' = qs
                    /\ currentQuestionIndex' = 0
                    /\ isActive' = TRUE
                    /\ ret' = CurrentQuestionOf(TRUE, qs, 0)
                    /\ UNCHANGED << flashcards, score, answers >>

\* startQuiz shuffling the catalog array itself, in place.
StartQuizShufflingCatalog(level, questionCount, mode, tape) ==
    LET pool == FilterByLevel(flashcards, level)
    IN  /\ currentMode' = mode
        /\ filteredFlashcards' = pool
        /\ UNCHANGED viewer
        /\ call' = [ op |-> "startQuiz", level |-> level,
                     questionCount |-> questionCount, mode |-> mode ]
        /\ IF NotEnoughCards(pool)
           THEN /\ ret' = Null
                /\ UNCHANGED << flashcards, questions, currentQuestionIndex,
                                score, answers, isActive >>
           ELSE LET qs == BuildQuestions(pool, questionCount, mode, tape)
                IN  /\ questions' = qs
                    /\ currentQuestionIndex' = 0
                    /\ score' = 0
                    /\ answers' = << >>
                    /\ isActive' = TRUE
                    /\ ret' = CurrentQuestionOf(TRUE, qs, 0)
                    /\ flashcards' = shuffleArray(flashcards, tape, 0)

\* Quiz.startQuiz(level, questionCount, mode), with the random tape it reads.
StartQuiz(level, questionCount, mode, tape) ==
    LET pool == FilterByLevel(flashcards, level)
    IN  /\ currentMode' = mode
        /\ filteredFlashcards' = pool
        /\ UNCHANGED viewer
        /\ call' = [ op |-> "startQuiz", level |-> level,
                     questionCount |-> questionCount, mode |-> mode ]
        /\ IF NotEnoughCards(pool)
           THEN /\ ret' = Null
                /\ UNCHANGED << flashcards, questions, currentQuestionIndex,
                                score, answers, isActive >>
           ELSE LET qs == BuildQuestions(pool, questionCount, mode, tape)
                IN  /\ questions' = qs
                    /\ currentQuestionIndex' = 0
                    /\ score' = 0
                    /\ answers' = << >>
                    /\ isActive' = TRUE
                    /\ ret' = CurrentQuestionOf(TRUE, qs, 0)
                    /\ UNCHANGED flashcards

-----------------------------------------------------------------------------
(* The other methods of Quiz *)

\* IsCorrect taking the selected index as 1-based.
IsCorrectOneBased(selectedIndex, question) ==
    selectedIndex = question.correctIndex + 1

\* selectedIndex === question.correctIndex
IsCorrect(selectedIndex, question) == selectedIndex = question.correctIndex

\* checkAnswer counting every submitted answer into the score.
CheckAnswerScoringAll(selectedIndex) ==
    LET question == getCurrentQuestion
    IN  /\ call' = [ op |-> "checkAnswer", selectedIndex |-> selectedIndex ]
        /\ UNCHANGED viewer
        /\ IF question = Null
           THEN /\ ret' = Some("boolean", FALSE)
                /\ UNCHANGED session
           ELSE LET isCorrect == IsCorrect(selectedIndex, question.value)
                IN  /\ score' = score + 1
                    /\ answers' = Append(answers,
                                         [ question |-> question.value,
                                           selectedIndex |-> selectedIndex,
                                           isCorrect |-> isCorrect ])
                    /\ ret' = Some("boolean", isCorrect)
                    /\ UNCHANGED << flashcards, filteredFlashcards, questions,
                                    currentQuestionIndex, isActive, currentMode >>

\* checkAnswer refusing an index that is not the index of an option.
CheckAnswerRangeChecked(selectedIndex) ==
    LET question == getCurrentQuestion
    IN  /\ call' = [ op |-> "checkAnswer", selectedIndex |-> selectedIndex ]
        /\ UNCHANGED viewer
        /\ IF \/ question = Null
              \/ selectedIndex < 0
              \/ selectedIndex >= Len(question.value.options)
           THEN /\ ret' = Some("boolean", FALSE)
                /\ UNCHANGED session
           ELSE LET isCorrect == IsCorrect(selectedIndex, question.value)
                IN  /\ score' = IF isCorrect THEN score + 1 ELSE score
                    /\ answers' = Append(answers,
                                         [ question |-> question.value,
                                           selectedIndex |-> selectedIndex,
                                           isCorrect |-> isCorrect ])
                    /\ ret' = Some("boolean", isCorrect)
                    /\ UNCHANGED << flashcards, filteredFlashcards, questions,
                                    currentQuestionIndex, isActive, currentMode >>

\* Quiz.checkAnswer(selectedIndex)
CheckAnswer(selectedIndex) ==
    LET question == getCurrentQuestion
    IN  /\ call' = [ op |-> "checkAnswer", selectedIndex |-> selectedIndex ]
        /\ UNCHANGED viewer
        /\ IF question = Null
           THEN /\ ret' = Some("boolean", FALSE)
                /\ UNCHANGED session
           ELSE LET isCorrect == IsCorrect(selectedIndex, question.value)
                IN  /\ score' = IF isCorrect THEN score + 1 ELSE score
                    /\ answers' = Append(answers,
                                         [ question |-> question.value,
                                           selectedIndex |-> selectedIndex,
                                           isCorrect |-> isCorrect ])
                    /\ ret' = Some("boolean", isCorrect)
                    /\ UNCHANGED << flashcards, filteredFlashcards, questions,
                                    currentQuestionIndex, isActive, currentMode >>

\* nextQuestion deriving the active flag from the cursor.
NextQuestionReactivating ==
    /\ UNCHANGED viewer
    /\ call' = [ op |-> "nextQuestion" ]
    /\ currentQuestionIndex' = currentQuestionIndex + 1
    /\ isActive' = (currentQuestionIndex + 1 < Len(questions))
    /\ ret' = CurrentQuestionOf(isActive', questions, currentQuestionIndex + 1)
    /\ UNCHANGED << flashcards, filteredFlashcards, questions, score, answers,
                    currentMode >>

\* nextQuestion ending the session one question late.
NextQuestionOffByOne ==
    /\ UNCHANGED viewer
    /\ call' = [ op |-> "nextQuestion" ]
    /\ currentQuestionIndex' = currentQuestionIndex + 1
    /\ IF currentQuestionIndex + 1 > Len(questions)
       THEN /\ isActive' = FALSE
            /\ ret' = Null
       ELSE /\ isActive' = isActive
            /\ ret' = CurrentQuestionOf(isActive, questions, currentQuestionIndex + 1)
    /\ UNCHANGED << flashcards, filteredFlashcards, questions, score, answers,
                    currentMode >>

\* Quiz.nextQuestion()
NextQuestion ==
    /\ UNCHANGED viewer
    /\ call' = [ op |-> "nextQuestion" ]
    /\ currentQuestionIndex' = currentQuestionIndex + 1
    /\ IF currentQuestionIndex + 1 >= Len(questions)
       THEN /\ isActive' = FALSE
            /\ ret' = Null
       ELSE /\ isActive' = isActive
            /\ ret' = CurrentQuestionOf(isActive, questions, currentQuestionIndex + 1)
    /\ UNCHANGED << flashcards, filteredFlashcards, questions, score, answers,
                    currentMode >>

\* endQuiz rewinding the cursor as well.
EndQuizRewinding ==
    /\ UNCHANGED viewer
    /\ call' = [ op |-> "endQuiz" ]
    /\ isActive' = FALSE
    /\ currentQuestionIndex' = 0
    /\ ret' = Null
    /\ UNCHANGED << flashcards, filteredFlashcards, questions, score, answers,
                    currentMode >>

\* Quiz.endQuiz()
EndQuiz ==
    /\ UNCHANGED viewer
    /\ call' = [ op |-> "endQuiz" ]
    /\ isActive' = FALSE
    /\ ret' = Null
    /\ UNCHANGED << flashcards, filteredFlashcards, questions,
                    currentQuestionIndex, score, answers, currentMode >>

\* The value of 0 / 0 in the source's arithmetic.
NaN == "NaN"

\* Percentage with Math.floor in the place of Math.round.
PercentageFloor(correct, total) ==
    IF total = 0 THEN NaN ELSE (100 * correct) \div total

\* Math.round((score / length) * 100): the nearest integer, a half rounding up.
Percentage(correct, total) ==
    IF total = 0 THEN NaN ELSE (200 * correct + total) \div (2 * total)

\* The record Quiz.getResults() builds.
Results ==
    [ total |-> Len(questions),
      correct |-> score,
      wrong |-> Len(questions) - score,
      percentage |-> Percentage(score, Len(questions)),
      answers |-> answers ]

\* The record Quiz.getProgress() builds.
Progress ==
    [ current |-> currentQuestionIndex + 1,
      total |-> Len(questions),
      score |-> score ]

\* Quiz.getResults()
GetResults ==
    /\ UNCHANGED viewer
    /\ call' = [ op |-> "getResults" ]
    /\ ret' = Some("results", Results)
    /\ UNCHANGED session

\* getCurrentQuestion moving the cursor on, as an iterator would.
GetCurrentQuestionConsuming ==
    /\ UNCHANGED viewer
    /\ call' = [ op |-> "getCurrentQuestion" ]
    /\ ret' = getCurrentQuestion
    /\ currentQuestionIndex' =
          IF getCurrentQuestion = Null THEN currentQuestionIndex
          ELSE currentQuestionIndex + 1
    /\ UNCHANGED << flashcards, filteredFlashcards, questions, score, answers,
                    isActive, currentMode >>

\* Quiz.getCurrentQuestion(), called by the user of the engine.
GetCurrentQuestion ==
    /\ UNCHANGED viewer
    /\ call' = [ op |-> "getCurrentQuestion" ]
    /\ ret' = getCurrentQuestion
    /\ UNCHANGED session

\* isFinished reading the active flag in the place of the cursor.
FinishedWhenInactive == ~isActive

\* currentQuestionIndex >= questions.length
isFinished == currentQuestionIndex >= Len(questions)

\* Quiz.isFinished()
IsFinished ==
    /\ UNCHANGED viewer
    /\ call' = [ op |-> "isFinished" ]
    /\ ret' = Some("boolean", isFinished)
    /\ UNCHANGED session

-----------------------------------------------------------------------------
(* Specifications *)

\* The state FlashcardApp.loadFlashcards leaves, the server file holding the
\* cards of catalog.
Loaded(catalog) ==
    /\ appFlashcards = catalog
    /\ originalOrder = catalog
    /\ currentIndex = 0
    /\ isShuffled = FALSE
    /\ flashcardsJson = catalog

\* The state after `new Quiz(catalog)`.
New(catalog) ==
    /\ flashcards = catalog
    /\ filteredFlashcards = << >>
    /\ questions = << >>
    /\ currentQuestionIndex = 0
    /\ score = 0
    /\ answers = << >>
    /\ isActive = FALSE
    /\ currentMode = "meaning"
    /\ call = [ op |-> "new" ]
    /\ ret = Null

InitStart == \E catalog \in Catalogs : New(catalog) /\ Loaded(catalog)

\* startQuiz on an engine that holds no session yet, over every level, count,
\* mode and random tape.
FirstStart ==
    /\ questions = << >>
    /\ \E level \in Levels, questionCount \in Counts, mode \in Modes, tape \in Tapes :
          StartQuiz(level, questionCount, mode, tape)

NextStart == FirstStart

SpecStart == InitStart /\ [][NextStart]_vars

\* A running engine is explored on the catalogs RunCatalogs, for short quizzes
\* of the levels RunLevels and for the tapes that repeat one of two draws.
RunCatalogs == { CatFive, CatShared }
RunLevels == { "ALL", "N5" }
RunCounts == { 1, 2 }
RunTapes == { [ k \in 1..TapeLen |-> r ] : r \in { 2, 3 } }

\* The indices a caller selects: one below the options and two that are an
\* option of a full question, of which the last is past a two-option one.
SelectedIndices == { -1, 1, 2 }

Start ==
    \E level \in RunLevels, questionCount \in RunCounts, mode \in Modes,
       tape \in RunTapes :
          StartQuiz(level, questionCount, mode, tape)

\* checkAnswer, while it is refused or the history is below MaxAnswers.
Check ==
    /\ getCurrentQuestion = Null \/ Len(answers) < MaxAnswers
    /\ \E selectedIndex \in SelectedIndices : CheckAnswer(selectedIndex)

\* nextQuestion, while the cursor is below MaxCursor.
Advance ==
    /\ currentQuestionIndex < MaxCursor
    /\ NextQuestion

Init == \E catalog \in RunCatalogs : New(catalog) /\ Loaded(catalog)

Next ==
    \/ Start
    \/ Check
    \/ Advance
    \/ EndQuiz
    \/ GetResults
    \/ GetCurrentQuestion
    \/ IsFinished

Spec == Init /\ [][Next]_vars

\* The caller of the engine answers in sequence: it starts a quiz when none
\* runs, submits one answer for the current question, asks for the next
\* question, and reads the results at any time.
PlayCatalogs == { CatEight, CatMixed, CatShared }
PlayCounts == { 0, 3 }
PlaySelected == { 1, 2 }

InitPlay == \E catalog \in PlayCatalogs : New(catalog) /\ Loaded(catalog)

PlayStart ==
    /\ ~isActive
    /\ \E questionCount \in PlayCounts, mode \in Modes, tape \in RunTapes :
          StartQuiz("ALL", questionCount, mode, tape)

PlayAnswer ==
    /\ isActive
    /\ Len(answers) = currentQuestionIndex
    /\ \E selectedIndex \in PlaySelected : CheckAnswer(selectedIndex)

PlayNext ==
    /\ isActive
    /\ Len(answers) = currentQuestionIndex + 1
    /\ NextQuestion

NextPlay ==
    \/ PlayStart
    \/ PlayAnswer
    \/ PlayNext
    \/ GetResults

SpecPlay == InitPlay /\ [][NextPlay]_vars

\* The caller walks through a quiz: it starts one when none runs, calls
\* nextQuestion as long as the session is active, and may answer the current
\* question once before moving on, with an index that may lie outside the
\* options. A caller that keeps calling nextQuestion is one that does not
\* stop while that call is possible: weak fairness of WalkNext.
WalkCatalogs == { CatFive, CatShared }
WalkCounts == { 0, 2 }
WalkSelected == { -1, 3, 4 }

InitWalk == \E catalog \in WalkCatalogs : New(catalog) /\ Loaded(catalog)

WalkStart ==
    /\ ~isActive
    /\ \E questionCount \in WalkCounts, mode \in Modes, tape \in RunTapes :
          StartQuiz("ALL", questionCount, mode, tape)

WalkAnswer ==
    /\ getCurrentQuestion # Null
    /\ \A k \in DOMAIN answers : answers[k].question # getCurrentQuestion.value
    /\ \E selectedIndex \in WalkSelected : CheckAnswer(selectedIndex)

WalkNext ==
    /\ isActive
    /\ NextQuestion

NextWalk ==
    \/ WalkStart
    \/ WalkAnswer
    \/ WalkNext

SpecWalk == InitWalk /\ [][NextWalk]_vars /\ WF_vars(WalkNext)

\* The owner of the catalog array writes to it while the engine, which holds
\* the same array (the constructor stores the reference), runs a session.
MaxCatalog == 5
MinCatalog == 3
CatalogExtra == Card(9, "N5", "w", "W", "wa", "wa")
CatalogTape == [ k \in 1..TapeLen |-> 2 ]

\* The pool being the catalog array itself.
PoolSharingCatalog(pool, catalog) == catalog

\* startQuiz assigns to filteredFlashcards a new array, [...this.flashcards]
\* or the result of filter: it has the elements the catalog had at that time
\* and a later write to the catalog array does not reach it.
PoolAfterCatalogWrite(pool, catalog) == pool

\* flashcards.push(card) by the owner of the array.
CatalogPush ==
    /\ Len(flashcards) < MaxCatalog
    /\ flashcards' = Append(flashcards, CatalogExtra)
    /\ filteredFlashcards' = PoolAfterCatalogWrite(filteredFlashcards, flashcards')
    /\ UNCHANGED viewer
    /\ call' = [ op |-> "catalog.push" ]
    /\ ret' = Some("number", Len(flashcards'))
    /\ UNCHANGED << questions, currentQuestionIndex, score, answers, isActive,
                    currentMode >>

\* flashcards.pop() by the owner of the array.
CatalogPop ==
    /\ Len(flashcards) > MinCatalog
    /\ flashcards' = SubSeq(flashcards, 1, Len(flashcards) - 1)
    /\ filteredFlashcards' = PoolAfterCatalogWrite(filteredFlashcards, flashcards')
    /\ UNCHANGED viewer
    /\ call' = [ op |-> "catalog.pop" ]
    /\ ret' = Some("card", flashcards[Len(flashcards)])
    /\ UNCHANGED << questions, currentQuestionIndex, score, answers, isActive,
                    currentMode >>

InitCatalog == New(CatShared) /\ Loaded(CatShared)

CatalogStart ==
    \E level \in RunLevels, questionCount \in RunCounts :
        StartQuiz(level, questionCount, "meaning", CatalogTape)

NextCatalog ==
    \/ CatalogStart
    \/ Check
    \/ Advance
    \/ GetResults
    \/ CatalogPush
    \/ CatalogPop

SpecCatalog == InitCatalog /\ [][NextCatalog]_vars

-----------------------------------------------------------------------------
(* The card viewer: FlashcardApp *)

\* The user saves at most MaxSaved new cards.
MaxSaved == 2

MaxOf(S) == CHOOSE m \in S : \A x \in S : x <= m

\* FlashcardManager.getNextId(existingFlashcards)
getNextId(existingFlashcards) ==
    IF Len(existingFlashcards) = 0 THEN 1
    ELSE MaxOf({ existingFlashcards[k].id : k \in DOMAIN existingFlashcards }) + 1

\* The card data generateFlashcardData returned for the word to save: the
\* fields of a card but the id, and no level.
PendingCard(id) == Card(id, "", "p", "P", "pa", "pa")

\* const card = this.flashcards[this.currentIndex] of updateDisplay:
\* undefined, written Null, when the index is not one of the list.
DisplayedCard ==
    IF currentIndex >= 0 /\ currentIndex < Len(appFlashcards)
    THEN Some("card", appFlashcards[currentIndex + 1])
    ELSE Null

\* FlashcardApp.prevCard()
prevCard ==
    /\ call' = [ op |-> "prevCard" ]
    /\ ret' = Null
    /\ currentIndex' = IF currentIndex > 0 THEN currentIndex - 1 ELSE currentIndex
    /\ UNCHANGED << session, appFlashcards, originalOrder, isShuffled,
                    flashcardsJson >>

\* FlashcardApp.nextCard()
nextCard ==
    /\ call' = [ op |-> "nextCard" ]
    /\ ret' = Null
    /\ currentIndex' = IF currentIndex < Len(appFlashcards) - 1
                       THEN currentIndex + 1 ELSE currentIndex
    /\ UNCHANGED << session, appFlashcards, originalOrder, isShuffled,
                    flashcardsJson >>

\* FlashcardApp.toggleShuffle(), with shuffleCards reading the random tape.
toggleShuffle(tape) ==
    /\ call' = [ op |-> "toggleShuffle" ]
    /\ ret' = Null
    /\ isShuffled' = ~isShuffled
    /\ appFlashcards' = IF ~isShuffled THEN shuffleArray(appFlashcards, tape, 0)
                        ELSE originalOrder
    /\ currentIndex' = 0
    /\ UNCHANGED << session, originalOrder, flashcardsJson >>

\* FlashcardApp.reset()
reset ==
    /\ call' = [ op |-> "reset" ]
    /\ ret' = Null
    /\ isShuffled' = FALSE
    /\ appFlashcards' = originalOrder
    /\ currentIndex' = 0
    /\ UNCHANGED << session, originalOrder, flashcardsJson >>

\* FlashcardApp.filterByLevel(level)
filterByLevel(level) ==
    /\ call' = [ op |-> "filterByLevel", level |-> level ]
    /\ ret' = Null
    /\ appFlashcards' = IF level = "ALL" THEN flashcards
                        ELSE SelectSeq(flashcards, LAMBDA f : f.level = level)
    /\ originalOrder' = appFlashcards'
    /\ currentIndex' = 0
    /\ isShuffled' = FALSE
    /\ UNCHANGED << session, flashcardsJson >>

\* FlashcardApp.saveFlashcard() with a pending card; success is the answer of
\* the server, which appends the card to flashcards.json before it answers
\* true.
saveFlashcard(success) ==
    LET newFlashcard == PendingCard(getNextId(appFlashcards))
    IN  /\ call' = [ op |-> "saveFlashcard", success |-> success,
                     id |-> newFlashcard.id ]
        /\ ret' = Null
        /\ IF success
           THEN /\ flashcardsJson' = Append(flashcardsJson, newFlashcard)
                /\ appFlashcards' = Append(appFlashcards, newFlashcard)
                /\ originalOrder' = Append(originalOrder, newFlashcard)
                /\ currentIndex' = Len(appFlashcards)
           ELSE UNCHANGED << flashcardsJson, appFlashcards, originalOrder,
                             currentIndex >>
        /\ UNCHANGED << session, isShuffled >>

\* The user of the viewer pages through the cards, shuffles, resets, picks a
\* level and saves new cards.
ViewerLevels == { "ALL", "N5", "N4", "N3" }

InitViewer == New(CatShared) /\ Loaded(CatShared)

Shuffle == \E tape \in RunTapes : toggleShuffle(tape)

PickLevel == \E level \in ViewerLevels : filterByLevel(level)

Save ==
    /\ Len(flashcardsJson) < Len(flashcards) + MaxSaved
    /\ \E success \in BOOLEAN : saveFlashcard(success)

NextViewer ==
    \/ prevCard
    \/ nextCard
    \/ Shuffle
    \/ reset
    \/ PickLevel
    \/ Save

SpecViewer == InitViewer /\ [][NextViewer]_vars

-----------------------------------------------------------------------------
(* Properties *)

Range(seq) == { seq[k] : k \in DOMAIN seq }
Occurrences(seq, x) == Cardinality({ k \in DOMAIN seq : seq[k] = x })
UniqueIds(seq) == \A i, j \in DOMAIN seq : seq[i].id = seq[j].id => i = j

\* The last call was startQuiz.
CalledStart == call.op = "startQuiz"

\* A card is of the requested tier.
MatchesTier(card, level) == level = "ALL" \/ card.level = level

\* The catalog cards of the requested tier, in catalog order.
TierCards(level) ==
    [ k \in { m \in DOMAIN flashcards : MatchesTier(flashcards[m], level) }
        |-> flashcards[k] ]

TierSize(level) == Cardinality(DOMAIN TierCards(level))
TierUnique(level) ==
    \A i, j \in DOMAIN TierCards(level) :
        flashcards[i].id = flashcards[j].id => i = j

\* The correct answer of a card as the mode rule states it.
ExpectedAnswer(card, mode) ==
    CASE mode = "meaning" /\ card.meaning_id # "" -> card.meaning_id
      [] mode = "meaning" /\ card.meaning_id = "" -> card.meaning
      [] mode = "reading" -> card.furigana

PairwiseDistinct(seq) == \A i, j \in DOMAIN seq : seq[i] = seq[j] => i = j

\* C1 (minimum-pool guard): startQuiz returns null whenever fewer than 4
\* catalog cards are of the requested tier, and returns a Question whenever at
\* least 4 are and their ids are unique, for every count of 0..MaxCount and
\* both modes.
C1_MinimumPoolGuard ==
    CalledStart =>
        /\ TierSize(call.level) < 4 => ret = Null
        /\ (TierSize(call.level) >= 4 /\ TierUnique(call.level))
              => ret.kind = "question"

\* A start on a pool of exactly three cards was refused.
C1_Witness ==
    /\ CalledStart
    /\ flashcards = CatShared
    /\ call.level = "N5"
    /\ TierSize(call.level) = 3
    /\ ret = Null

\* C2 (pool filtering): after startQuiz the pool holds exactly the catalog
\* cards of the requested tier (all cards for ALL), each as often as the
\* catalog does, and every question's card and every option of every question
\* comes from a card of the pool.
C2_PoolFiltering ==
    CalledStart =>
        /\ \A c \in Range(flashcards) \cup Range(filteredFlashcards) :
              Occurrences(filteredFlashcards, c) =
                  IF MatchesTier(c, call.level) THEN Occurrences(flashcards, c) ELSE 0
        /\ \A k \in DOMAIN questions :
              /\ questions[k].flashcard \in Range(filteredFlashcards)
              /\ \A o \in DOMAIN questions[k].options :
                    \E c \in Range(filteredFlashcards) :
                        questions[k].options[o] \in { c.meaning_id, c.meaning, c.furigana }

\* A quiz of tier N5 was started on a catalog that also holds another card.
C2_Witness ==
    /\ CalledStart
    /\ flashcards = CatMixed
    /\ call.level = "N5"
    /\ ret.kind = "question"
    /\ Len(filteredFlashcards) = 4
    /\ Len(questions) = 4

\* C3 (no repeats): no two questions of the sequence are about the same card
\* id, also when the catalog holds duplicate ids.
C3_NoRepeats ==
    \A i, j \in DOMAIN questions :
        questions[i].flashcard.id = questions[j].flashcard.id => i = j

\* A quiz over all five cards of the catalog with a duplicate id has four
\* questions.
C3_Witness ==
    /\ CalledStart
    /\ flashcards = CatDupId
    /\ ~UniqueIds(filteredFlashcards)
    /\ call.questionCount = 0
    /\ Len(questions) = 4

\* C4 (count semantics): for a pool of at least 4 cards with unique ids, a
\* requested count of 0 gives as many questions as the pool has cards, and a
\* count k > 0 gives min(k, pool size) questions.
C4_CountSemantics ==
    (CalledStart /\ TierSize(call.level) >= 4 /\ TierUnique(call.level)) =>
        LET n == TierSize(call.level)
            k == call.questionCount
        IN  /\ k = 0 => Len(questions) = n
            /\ (k > 0 /\ k <= n) => Len(questions) = k
            /\ k > n => Len(questions) = n

\* Six questions were requested of a pool of five cards.
C4_Witness ==
    /\ CalledStart
    /\ flashcards = CatFive
    /\ call.questionCount = 6
    /\ Len(questions) = 5

\* C5 (option integrity): every question has at most 4 options, pairwise
\* distinct, and correctIndex is the index of the card's correct answer for
\* the mode of the session.
C5_OptionIntegrity ==
    \A k \in DOMAIN questions :
        LET q == questions[k]
        IN  /\ Len(q.options) <= 4
            /\ PairwiseDistinct(q.options)
            /\ q.correctIndex \in 0..(Len(q.options) - 1)
            /\ q.options[q.correctIndex + 1] = ExpectedAnswer(q.flashcard, currentMode)

\* A full question about a card without meaning_id, whose meaning equals the
\* meaning_id of another card of the pool.
C5_Witness ==
    /\ flashcards = CatDupId
    /\ currentMode = "meaning"
    /\ \E k \in DOMAIN questions :
          /\ questions[k].flashcard.id = 4
          /\ questions[k].options[questions[k].correctIndex + 1] = "A"
          /\ Len(questions[k].options) = 4

\* C6: every question of an accepted session has exactly 4 options.
C6_ExactlyFourOptions ==
    \A k \in DOMAIN questions : Len(questions[k].options) = 4

\* The answers, other than the card's own, of the pool cards of another id.
OtherAnswers(q, mode) ==
    { ExpectedAnswer(c, mode) :
        c \in { x \in Range(filteredFlashcards) : x.id # q.flashcard.id } }
    \ { ExpectedAnswer(q.flashcard, mode) }

InSequence ==
    /\ Len(answers) <= Len(questions)
    /\ currentQuestionIndex \in { Len(answers) - 1, Len(answers) }
    /\ currentQuestionIndex >= 0
    /\ \A k \in DOMAIN answers : answers[k].question = questions[k]

\* C8 (scoring): when the answers were submitted in sequence, getResults()
\* reports as correct the number of submitted indices that equal the
\* correctIndex of their question.
C8_Scoring ==
    (call.op = "getResults" /\ InSequence) =>
        ret.value.correct =
            Cardinality({ k \in DOMAIN answers :
                            answers[k].selectedIndex = questions[k].correctIndex })

\* The results of a quiz of eight questions answered in sequence, five of
\* them correctly.
C8_Witness ==
    /\ call.op = "getResults"
    /\ InSequence
    /\ ~isActive
    /\ Len(questions) = 8
    /\ Len(answers) = 8
    /\ ret.value.correct = 5

\* C9 (results arithmetic): with a non-empty sequence getResults() reports
\* total = sequence length, correct = score, wrong = total - correct, and as
\* percentage the integer nearest to 100 * correct / total, a half rounded up.
C9_ResultsArithmetic ==
    (call.op = "getResults" /\ Len(questions) > 0) =>
        LET r == ret.value
        IN  /\ r.total = Len(questions)
            /\ r.correct = score
            /\ r.wrong = r.total - r.correct
            /\ 2 * r.percentage * r.total - r.total <= 200 * r.correct
            /\ 200 * r.correct < 2 * r.percentage * r.total + r.total

\* One correct answer of eight: 12.5 is reported as 13.
C9_Witness ==
    /\ call.op = "getResults"
    /\ ret.value.total = 8
    /\ ret.value.correct = 1
    /\ ret.value.wrong = 7
    /\ ret.value.percentage = 13

\* C10: a checkAnswer call made while no session is active or the cursor is
\* past the sequence returns false and changes no field of the engine.
C10_CheckAnswerNoOp ==
    [][ (call'.op = "checkAnswer"
           /\ (~isActive \/ currentQuestionIndex >= Len(questions)))
        => (ret' = Some("boolean", FALSE) /\ UNCHANGED session) ]_vars

\* checkAnswer was called after endQuiz ended a session before its last
\* question.
C10_Witness ==
    /\ call.op = "checkAnswer"
    /\ ~isActive
    /\ Len(questions) = 2
    /\ currentQuestionIndex < Len(questions)
    /\ Len(answers) = 1
    /\ ret = Some("boolean", FALSE)

\* C11 (nextQuestion): on an active session nextQuestion advances the cursor
\* by exactly one; when the cursor is then past the last question the session
\* is made inactive and null is returned, otherwise the Question at the new
\* cursor is returned and the active flag, the score, the history and the
\* sequence stay as they were.
C11_NextQuestionAdvances ==
    [][ (call'.op = "nextQuestion" /\ isActive)
        => /\ currentQuestionIndex' = currentQuestionIndex + 1
           /\ IF currentQuestionIndex + 1 >= Len(questions)
              THEN ~isActive' /\ ret' = Null
              ELSE /\ ret' = Some("question", questions[currentQuestionIndex + 2])
                   /\ isActive'
                   /\ UNCHANGED << score, answers, questions >> ]_vars

\* nextQuestion moved an active session of two questions past its last one.
C11_Witness ==
    /\ call.op = "nextQuestion"
    /\ Len(questions) = 2
    /\ currentQuestionIndex = 2
    /\ Len(answers) = 2
    /\ ~isActive
    /\ ret = Null

\* C12 (reset on start): a startQuiz call on a tier of at least 4 cards
\* returns with the cursor at 0, the score at 0, the history empty and the
\* session active, whatever the engine held before, and the Question it
\* returns is the first of the new sequence, the one getCurrentQuestion gives.
C12_ResetOnStart ==
    [][ (call'.op = "startQuiz" /\ TierSize(call'.level) >= 4)
        => /\ currentQuestionIndex' = 0
           /\ score' = 0
           /\ answers' = << >>
           /\ isActive'
           /\ questions' # << >>
           /\ ret' = Some("question", questions'[1])
           /\ ret' = getCurrentQuestion' ]_vars

\* A quiz was started over a session that had moved on and scored; the
\* session before it is known by the checkAnswer or nextQuestion call the
\* step of C12_ResetOnStart replaces.
C12_Witness ==
    /\ call.op = "startQuiz"
    /\ flashcards = CatShared
    /\ call.level = "ALL"
    /\ call.questionCount = 2
    /\ Len(questions) = 2
    /\ currentQuestionIndex = 0
    /\ score = 0
    /\ answers = << >>
    /\ isActive
    /\ ret = Some("question", questions[1])

\* C13 (fresh session on every start): when a startQuiz call has returned,
\* also one that returned null, nothing of the session before it is left:
\* the cursor and the score are 0 and the history is empty, and after a
\* refused start there is no sequence and no active session.
C13_FreshSessionOnEveryStart ==
    CalledStart =>
        /\ currentQuestionIndex = 0
        /\ score = 0
        /\ answers = << >>
        /\ ret = Null => (~isActive /\ questions = << >> /\ getCurrentQuestion = Null)

\* C14 (endQuiz): endQuiz makes the session inactive at every cursor position
\* and changes no other field; getCurrentQuestion is null afterwards, also
\* with the cursor still inside the sequence.
C14_EndQuizOnlyDeactivates ==
    [][ call'.op = "endQuiz"
        => /\ ~isActive'
           /\ UNCHANGED << flashcards, filteredFlashcards, questions,
                           currentQuestionIndex, score, answers, currentMode >>
           /\ getCurrentQuestion' = Null ]_vars

\* endQuiz ended a session of two questions on its first question, after one
\* correct answer.
C14_Witness ==
    /\ call.op = "endQuiz"
    /\ ~isActive
    /\ Len(questions) = 2
    /\ currentQuestionIndex = 0
    /\ score = 1
    /\ Len(answers) = 1
    /\ getCurrentQuestion = Null

\* C15 (inactive-session calls): nextQuestion and getResults called while no
\* session is active leave the cursor, the score, the history, the sequence
\* and the active flag as they were; nextQuestion returns null and getResults
\* returns the result record of the unchanged fields.
C15_InactiveCallsAreNoOps ==
    [][ (call'.op \in { "nextQuestion", "getResults" } /\ ~isActive)
        => /\ UNCHANGED << currentQuestionIndex, score, answers, questions,
                           isActive >>
           /\ call'.op = "nextQuestion" => ret' = Null
           /\ call'.op = "getResults" => ret' = Some("results", Results) ]_vars

\* C16 (getCurrentQuestion): a getCurrentQuestion call returns the Question
\* at the cursor when the session is active and the cursor is inside the
\* sequence, returns null in every other state, and changes no field of the
\* engine.
C16_GetCurrentQuestionPure ==
    [][ call'.op = "getCurrentQuestion"
        => /\ UNCHANGED session
           /\ (isActive /\ currentQuestionIndex < Len(questions))
                 => ret' = Some("question", questions[currentQuestionIndex + 1])
           /\ ~(isActive /\ currentQuestionIndex < Len(questions))
                 => ret' = Null ]_vars

\* getCurrentQuestion returned the second question of an active session.
C16_Witness ==
    /\ call.op = "getCurrentQuestion"
    /\ isActive
    /\ Len(questions) = 2
    /\ currentQuestionIndex = 1
    /\ ret = Some("question", questions[2])

\* C17 (isFinished): an isFinished call returns true exactly when the cursor
\* is at or past the length of the sequence; so it returns true while no quiz
\* was ever started, and false when endQuiz has ended a session with the
\* cursor still inside the sequence.
C17_IsFinished ==
    call.op = "isFinished" =>
        /\ ret.kind = "boolean"
        /\ ret.value <=> currentQuestionIndex >= Len(questions)
        /\ questions = << >> => ret.value
        /\ (~isActive /\ currentQuestionIndex < Len(questions)) => ~ret.value

\* isFinished returned false on a session endQuiz ended on its first
\* question.
C17_Witness ==
    /\ call.op = "isFinished"
    /\ ~isActive
    /\ Len(questions) = 2
    /\ currentQuestionIndex = 0
    /\ ret = Some("boolean", FALSE)

\* isFinished returned true on an engine no quiz was started on.
C17_WitnessUnstarted ==
    /\ call.op = "isFinished"
    /\ questions = << >>
    /\ filteredFlashcards = << >>
    /\ ret = Some("boolean", TRUE)

\* The answer value of a card in meaning mode and in reading mode.
MeaningAnswer(card) == IF card.meaning_id = "" THEN card.meaning ELSE card.meaning_id
ReadingAnswer(card) == card.furigana

\* The option at 1-based position i of question q is the answer value, by
\* the rule of q's own mode, of the card c.
IsAnswerValueOf(q, i, c) ==
    /\ q.mode = "meaning" => q.options[i] = MeaningAnswer(c)
    /\ q.mode = "reading" => q.options[i] = ReadingAnswer(c)

\* C18 (mode rule): every question carries the mode of the startQuiz call
\* that built it; its correct option is, in meaning mode, the meaning_id of
\* its card, or the meaning when the meaning_id is empty, and in reading mode
\* the furigana of its card; every other option is that same value of a pool
\* card of another id.
C18_ModeRule ==
    \A k \in DOMAIN questions :
        LET q == questions[k]
        IN  /\ CalledStart
            /\ q.mode = call.mode
            /\ q.mode \in Modes
            /\ \A i \in DOMAIN q.options :
                  IF i = q.correctIndex + 1
                  THEN IsAnswerValueOf(q, i, q.flashcard)
                  ELSE \E c \in Range(filteredFlashcards) :
                          c.id # q.flashcard.id /\ IsAnswerValueOf(q, i, c)

\* A meaning quiz asked about the card without meaning_id, its meaning being
\* the correct option, and offered that meaning as a distractor of another
\* question.
C18_Witness ==
    /\ CalledStart
    /\ flashcards = CatMixed
    /\ call.mode = "meaning"
    /\ \E k \in DOMAIN questions :
          /\ questions[k].flashcard.id = 2
          /\ questions[k].flashcard.meaning_id = ""
          /\ questions[k].options[questions[k].correctIndex + 1] = "b"
    /\ \E k \in DOMAIN questions :
          /\ questions[k].flashcard.id # 2
          /\ "b" \in Range(questions[k].options)

\* C19 (hint pairing): a reading question has one optionsRomaji sequence, as
\* long as its options; at the correct index it holds the romaji of the
\* question's card, and at every other index the romaji of a pool card of
\* another id whose furigana is the option at that index. A meaning question
\* has no optionsRomaji.
C19_HintPairing ==
    \A k \in DOMAIN questions :
        LET q == questions[k]
        IN  IF q.mode = "reading"
            THEN /\ Len(q.optionsRomaji) = 1
                 /\ Len(q.optionsRomaji[1]) = Len(q.options)
                 /\ \A i \in DOMAIN q.options :
                       IF i = q.correctIndex + 1
                       THEN q.optionsRomaji[1][i] = q.flashcard.romaji
                       ELSE \E c \in Range(filteredFlashcards) :
                               /\ c.id # q.flashcard.id
                               /\ c.furigana = q.options[i]
                               /\ c.romaji = q.optionsRomaji[1][i]
            ELSE q.optionsRomaji = << >>

\* A reading question whose shuffle moved the correct option off the last
\* place, with the reading "na" of two pool cards offered under the romaji
\* "na2".
C19_Witness ==
    /\ CalledStart
    /\ flashcards = CatMixed
    /\ call.mode = "reading"
    /\ \E k \in DOMAIN questions :
          LET q == questions[k]
          IN  /\ Len(q.options) = 4
              /\ q.correctIndex < 3
              /\ q.optionsRomaji[1][q.correctIndex + 1] = q.flashcard.romaji
              /\ \E i \in DOMAIN q.options :
                    /\ i # q.correctIndex + 1
                    /\ q.options[i] = "na"
                    /\ q.optionsRomaji[1][i] = "na2"

\* C20 (pool snapshot): between two startQuiz calls the pool and the question
\* sequence, with the options of every question, stay what the start made
\* them, and getResults reports the same total, whatever cards the owner of
\* the catalog array adds to it or removes from it.
C20_PoolSnapshot ==
    [][ call'.op # "startQuiz"
        => /\ UNCHANGED << filteredFlashcards, questions >>
           /\ Results'.total = Results.total ]_vars

\* A card was added to the catalog while a session over the four cards of
\* the catalog was at its second question.
C20_Witness ==
    /\ call.op = "catalog.push"
    /\ isActive
    /\ Len(questions) = 2
    /\ currentQuestionIndex = 1
    /\ Len(filteredFlashcards) = 4
    /\ Len(flashcards) = 5
    /\ CatalogExtra \in Range(flashcards)
    /\ CatalogExtra \notin Range(filteredFlashcards)

\* The last card was removed from the catalog while a session with that card
\* in its pool was running.
C20_WitnessRemoved ==
    /\ call.op = "catalog.pop"
    /\ isActive
    /\ questions # << >>
    /\ Len(filteredFlashcards) = 4
    /\ Len(flashcards) = 3
    /\ filteredFlashcards[4] \notin Range(flashcards)

\* C21 (input untouched): no call of startQuiz, checkAnswer, nextQuestion,
\* endQuiz or getResults changes the catalog array the engine was built on:
\* its length, the order of its cards and every field of every card stay as
\* they were.
C21_CatalogUntouched ==
    [][ call'.op \in { "startQuiz", "checkAnswer", "nextQuestion", "endQuiz",
                       "getResults" }
        => /\ Len(flashcards') = Len(flashcards)
           /\ \A k \in DOMAIN flashcards : flashcards'[k] = flashcards[k] ]_vars

\* A quiz over the five-card catalog whose first question is not about the
\* first card of the catalog: the shuffle reordered the cards it selected
\* from.
C21_Witness ==
    /\ CalledStart
    /\ flashcards = CatFive
    /\ call.level = "ALL"
    /\ ret.kind = "question"
    /\ Len(questions) = 2
    /\ questions[1].flashcard # flashcards[1]
    /\ questions[2].flashcard # flashcards[2]

\* C22 (checkAnswer moves on): a checkAnswer call made on a current question
\* leaves the session past that question; made on the last question of the
\* sequence, it leaves isFinished true.
C22_CheckAnswerMovesOn ==
    [][ (call'.op = "checkAnswer" /\ getCurrentQuestion # Null)
        => /\ currentQuestionIndex' = currentQuestionIndex + 1
           /\ currentQuestionIndex + 1 >= Len(questions) => isFinished' ]_vars

\* C24 (inactive stays inactive): a session that is inactive becomes active
\* only by a startQuiz call that returns a Question; checkAnswer,
\* nextQuestion, getCurrentQuestion, getResults, endQuiz and a refused
\* startQuiz leave it inactive.
C24_InactiveUntilStart ==
    [][ (~isActive /\ isActive')
        => (call'.op = "startQuiz" /\ ret'.kind = "question") ]_vars

\* nextQuestion was called on a session endQuiz had ended on its first
\* question: the cursor is on the second question and the session is still
\* inactive.
C24_Witness ==
    /\ call.op = "nextQuestion"
    /\ ~isActive
    /\ Len(questions) = 2
    /\ currentQuestionIndex = 1
    /\ answers = << >>
    /\ ret = Null

\* The history agrees with the score and with the sequence.
HistoryConsistent ==
    /\ score = Cardinality({ k \in DOMAIN answers : answers[k].isCorrect })
    /\ \A k \in DOMAIN answers :
          /\ answers[k].isCorrect
                <=> (answers[k].selectedIndex = answers[k].question.correctIndex)
          /\ answers[k].question \in Range(questions)

\* C25 (history consistency): in every state the score is the number of
\* history entries marked correct, an entry is marked correct exactly when its
\* selected index is the correctIndex of its question, and the question of
\* every entry is one of the current sequence; a checkAnswer call on a current
\* question appends one entry, for that question and the submitted index,
\* after the entries already there, and no other call but a successful
\* startQuiz changes the history.
C25_HistoryConsistency ==
    [][ /\ HistoryConsistent'
        /\ (call'.op = "checkAnswer" /\ getCurrentQuestion # Null)
              => /\ Len(answers') = Len(answers) + 1
                 /\ SubSeq(answers', 1, Len(answers)) = answers
                 /\ answers'[Len(answers')].question = getCurrentQuestion.value
                 /\ answers'[Len(answers')].selectedIndex = call'.selectedIndex
        /\ (call'.op = "checkAnswer" /\ getCurrentQuestion = Null)
              => answers' = answers
        /\ call'.op \notin { "checkAnswer", "startQuiz" } => answers' = answers
      ]_vars

\* Two answers were given in a session, the first wrong and the second
\* right.
C25_Witness ==
    /\ call.op = "checkAnswer"
    /\ Len(answers) = 2
    /\ ~answers[1].isCorrect
    /\ answers[2].isCorrect
    /\ answers[1].question # answers[2].question
    /\ score = 1
    /\ ret = Some("boolean", TRUE)

\* C27 (score within the total): in every state of a session, however the
\* checkAnswer and nextQuestion calls were interleaved, the score is between 0
\* and the number of questions, so the wrong count of the results is not
\* negative and the percentage is at most 100, and no question is in the
\* history more than once.
C27_ScoreWithinTotal ==
    questions # << >> =>
        /\ 0 <= score
        /\ score <= Len(questions)
        /\ Results.wrong >= 0
        /\ Results.percentage <= 100
        /\ \A i, j \in DOMAIN answers :
              answers[i].question = answers[j].question => i = j

\* C28 (cursor within the sequence): in every state, whatever calls were
\* made, the cursor is between 0 and the length of the sequence, so the
\* current position getProgress reports, the cursor plus one, is at most the
\* total plus one.
C28_CursorWithinSequence ==
    /\ 0 <= currentQuestionIndex
    /\ currentQuestionIndex <= Len(questions)
    /\ Progress.current <= Progress.total + 1

\* C23 (walk-through and termination): in a session of n questions the k-th
\* nextQuestion call since the start, the cursor being k - 1 before it,
\* returns for k < n the Question at index k and leaves the session active,
\* and for k = n returns null, makes the session inactive and isFinished
\* true; a caller that keeps calling nextQuestion brings every active session
\* to that end.
C23_WalkThrough ==
    /\ [][ call'.op = "nextQuestion"
           => LET k == currentQuestionIndex + 1
                  n == Len(questions)
              IN  /\ k <= n
                  /\ currentQuestionIndex' = k
                  /\ k < n => /\ ret' = Some("question", questions[k + 1])
                              /\ isActive'
                              /\ ~isFinished'
                  /\ k = n => /\ ret' = Null
                              /\ ~isActive'
                              /\ isFinished' ]_vars
    /\ isActive ~> (~isActive /\ isFinished)

\* The fifth nextQuestion call of a session of five questions ended it.
C23_Witness ==
    /\ call.op = "nextQuestion"
    /\ Len(questions) = 5
    /\ currentQuestionIndex = 5
    /\ ~isActive
    /\ isFinished
    /\ ret = Null

\* The selected index is not the index of an option of the question.
OutOfRange(selectedIndex, question) ==
    selectedIndex < 0 \/ selectedIndex >= Len(question.options)

\* C26 (no range check): a checkAnswer call on a current question with an
\* index that is negative or at least the number of options returns false,
\* leaves the score, and appends to the history an entry for that question
\* and that index, marked incorrect.
C26_OutOfRangeIsWrong ==
    [][ (/\ call'.op = "checkAnswer"
         /\ getCurrentQuestion # Null
         /\ OutOfRange(call'.selectedIndex, getCurrentQuestion.value))
        => /\ ret' = Some("boolean", FALSE)
           /\ score' = score
           /\ answers' = Append(answers,
                                [ question |-> getCurrentQuestion.value,
                                  selectedIndex |-> call'.selectedIndex,
                                  isCorrect |-> FALSE ]) ]_vars

\* The index 3 was submitted for a question of three options, after the index
\* -1 for the question before it.
C26_Witness ==
    /\ call.op = "checkAnswer"
    /\ call.selectedIndex = 3
    /\ Len(answers) = 2
    /\ answers[1].selectedIndex = -1
    /\ answers[2].selectedIndex = 3
    /\ Len(answers[2].question.options) = 3
    /\ ~answers[2].isCorrect
    /\ score = 0
    /\ ret = Some("boolean", FALSE)

\* C29 (ids stay unique): whatever levels were picked and cards saved, the id
\* saveFlashcard gives a new card is the id of no card of the full catalog
\* and of no card saved before: the cards of flashcards.json, the catalog
\* followed by the saved cards, have pairwise different ids.
C29_SavedIdsUnique ==
    /\ UniqueIds(flashcardsJson)
    /\ \A k \in DOMAIN flashcardsJson :
          k > Len(flashcards) =>
              \A j \in DOMAIN flashcards : flashcards[j].id # flashcardsJson[k].id

\* C30 (index in range): after every sequence of prevCard, nextCard,
\* toggleShuffle, reset and filterByLevel calls, also with a level no card
\* has, currentIndex is an index of the displayed list, so updateDisplay
\* reads a card.
C30_IndexInRange ==
    /\ 0 <= currentIndex
    /\ currentIndex < Len(appFlashcards)
    /\ DisplayedCard.kind = "card"

=============================================================================
